---- MODULE Spec2Model ----
(***************************************************************************)
(* Model of app3.py, the corneal image review form.                        *)
(*                                                                         *)
(* The state is the file system the script works on (the image folder and  *)
(* the CSV files of the data folder) and, per reviewer, the page the       *)
(* browser shows.  A CSV file is kept as its lines of text cells, so that  *)
(* pandas' read_csv (first line is the header, column types are inferred)  *)
(* and to_csv are conversions that a round trip can fail.                  *)
(***************************************************************************)
EXTENDS Integers, Sequences, FiniteSets, TLC

(* ------------------------------ bounds -------------------------------- *)

\* number of form clicks (Submit Review / Update Review) in a behaviour
MaxOps == 3

(* --------------------------- input domains ---------------------------- *)

\* names typed into "Enter your name or ID": a word and a staff number
Reviewers == {"alice", "007"}

\* names typed when one reviewer calls themself "master"
WithMaster == {"alice", "master"}

AnyReviewers == Reviewers \cup WithMaster

\* files that images/*.* can hold, in the order images.sort() gives them
ImageOrder == <<"a.png", "b.txt", "c.png">>

ImageNames == {ImageOrder[i] : i \in 1..Len(ImageOrder)}

\* files of the folder that PIL's Image.open rejects
Unopenable == {"b.txt"}

\* what a reviewer enters in a form: the radio choice and the two text
\* areas as typed, before .strip() ("NA" for "nothing to report")
FormInputs ==
    { [condition |-> "Bacterial", margin_note |-> "", feedback |-> ""],
      [condition |-> "Fungal", margin_note |-> " x ", feedback |-> "NA"] }

(* ------------------------------- config ------------------------------- *)

MASTER_FILE == "reviews_master.csv"

REVIEWER_FILE(reviewer) == "reviews_" \o reviewer \o ".csv"

\* every path of the data folder the script can touch
DataPaths == {REVIEWER_FILE(r) : r \in AnyReviewers} \cup {MASTER_FILE}

Conditions == <<"Bacterial", "Fungal", "Others", "Not Sure">>

Header == <<"Reviewer", "ImageName", "Condition", "DiagnosticNote", "Feedback">>

Modes == {"Review New", "Edit Reviews", "Download CSV"}

Range(s) == {s[i] : i \in 1..Len(s)}

(* ------------------------------ CSV files ----------------------------- *)

\* a path that does not exist
Absent == [exists |-> FALSE, bad |-> FALSE, lines |-> <<>>]

\* str.strip() on the texts of the input domains
Strip(s) == IF s = " x " THEN "x" ELSE s

\* cell texts read_csv takes for a number, with the text to_csv writes back
IntText == [c \in {"007", "7"} |-> "7"]

FloatText == [c \in {"007", "7"} |-> "7.0"]

\* cell texts read_csv takes for a missing value (its default na_values)
NaTexts == {"", "nan", "NA"}

IsNum(c) == c \in DOMAIN IntText

IsNA(c) == c \in NaTexts

\* dtype read_csv infers for column j of the data lines
ColKind(rows, j) ==
    LET cells == {rows[i][j] : i \in 1..Len(rows)}
    IN  IF \A c \in cells : IsNum(c) THEN "int64"
        ELSE IF \A c \in cells : IsNum(c) \/ IsNA(c) THEN "float64"
        ELSE "object"

\* a cell once parsed, written the way to_csv prints the parsed value
ParsedCell(rows, i, j) ==
    LET c == rows[i][j]
        kind == ColKind(rows, j)
    IN  IF IsNA(c) THEN ""
        ELSE IF kind = "int64" THEN IntText[c]
        ELSE IF kind = "float64" THEN FloatText[c]
        ELSE c

\* pd.DataFrame(columns=[...]) of lines 41, 44, 46
EmptyFrame == [columns |-> Header, rows |-> <<>>]

\* pd.read_csv: raises on an undecodable or empty file, else header + rows
read_csv(f) ==
    IF f.bad \/ f.lines = <<>>
    THEN [ok |-> FALSE, df |-> EmptyFrame]
    ELSE [ok |-> TRUE,
          df |-> [columns |-> Head(f.lines),
                  rows |-> [i \in 1..(Len(f.lines) - 1) |->
                              [j \in 1..Len(f.lines[i + 1]) |->
                                  ParsedCell(Tail(f.lines), i, j)]]]]

\* df.to_csv(path, index=False): the file is replaced
to_csv(df) == [exists |-> TRUE, bad |-> FALSE, lines |-> <<df.columns>> \o df.rows]

\* df_new.to_csv(path, mode='a', header=not path.exists(), index=False)
to_csv_append(f, row) ==
    IF f.exists
    THEN [f EXCEPT !.lines = Append(@, row)]
    ELSE [exists |-> TRUE, bad |-> FALSE, lines |-> <<Header, row>>]

\* position of a column in a frame (0 when the frame has no such column)
ColIndex(df, name) ==
    IF name \in Range(df.columns)
    THEN CHOOSE k \in 1..Len(df.columns) : df.columns[k] = name
    ELSE 0

\* reviewed["ImageName"].tolist()
reviewed_images(df) ==
    [i \in 1..Len(df.rows) |-> df.rows[i][ColIndex(df, "ImageName")]]

(* ---------------------------- script stages --------------------------- *)

\* images.sort(); image_names
image_names(imgs) == SelectSeq(ImageOrder, LAMBDA n : n \in imgs)

\* lines 40-46: the table read, or an empty one when the file is absent,
\* unreadable, without rows or without an ImageName column
FallBack(exists, got) ==
    IF exists /\ got.ok /\ got.df.rows # <<>> /\ "ImageName" \in Range(got.df.columns)
    THEN got.df
    ELSE EmptyFrame

\* lines 37-46: the reviewer's table
LoadPrevious(fs, reviewer) ==
    FallBack(fs[REVIEWER_FILE(reviewer)].exists, read_csv(fs[REVIEWER_FILE(reviewer)]))

\* line 51
missing_files(df, imgs) ==
    SelectSeq(reviewed_images(df), LAMBDA n : n \notin imgs)

\* line 58: reviewed[~reviewed["ImageName"].isin(missing_files)]
Kept(loaded, imgs) ==
    [loaded EXCEPT !.rows =
        SelectSeq(@, LAMBDA row : row[ColIndex(loaded, "ImageName")] \in imgs)]

\* lines 53-59 on the table loaded: rows of absent images are dropped and the
\* file rewritten
DropMissing(fs, reviewer, imgs, loaded) ==
    IF missing_files(loaded, imgs) # <<>>
    THEN [reviewed |-> Kept(loaded, imgs),
          files |-> [fs EXCEPT ![REVIEWER_FILE(reviewer)] = to_csv(Kept(loaded, imgs))],
          pruned |-> TRUE]
    ELSE [reviewed |-> loaded, files |-> fs, pruned |-> FALSE]

\* lines 37-59
FilterBadEntries(fs, reviewer, imgs) ==
    DropMissing(fs, reviewer, imgs, LoadPrevious(fs, reviewer))

\* line 61
remaining_images(df, imgs) ==
    SelectSeq(image_names(imgs), LAMBDA n : n \notin Range(reviewed_images(df)))

\* Python's true division, in percent; b = 0 raises ZeroDivisionError
PyDiv(a, b) ==
    IF b = 0 THEN [raised |-> "ZeroDivisionError", value |-> 0]
    ELSE [raised |-> "", value |-> (a * 100) \div b]

\* a sidebar progress that divides without looking at total_images
ProgressUnguarded(completed, total_images) == PyDiv(completed, total_images)

\* line 72: completed / total_images if total_images > 0 else 0
Progress(completed, total_images) ==
    IF total_images > 0 THEN PyDiv(completed, total_images)
    ELSE [raised |-> "", value |-> 0]

(* ------------------------------ handlers ------------------------------ *)

\* lines 124-130: the submitted record
new_data(reviewer, image, condition, margin_note, feedback) ==
    <<reviewer, image, condition, Strip(margin_note), Strip(feedback)>>

\* lines 132-134: append to the reviewer file, then to the master file
SubmitWrites(fs, reviewer, row) ==
    LET fs1 == [fs EXCEPT ![REVIEWER_FILE(reviewer)] = to_csv_append(@, row)]
    IN  [fs1 EXCEPT ![MASTER_FILE] = to_csv_append(@, row)]

\* lines 188-191: the first row of selected_image gets the three new values
UpdateRow(df, selected_image, condition, margin_note, feedback) ==
    LET k == ColIndex(df, "ImageName")
        idx == CHOOSE i \in 1..Len(df.rows) :
                   /\ df.rows[i][k] = selected_image
                   /\ \A h \in 1..(i - 1) : df.rows[h][k] # selected_image
        set(row, name, v) == IF ColIndex(df, name) = 0 THEN row
                             ELSE [row EXCEPT ![ColIndex(df, name)] = v]
    IN  [df EXCEPT !.rows[idx] =
            set(set(set(@, "Condition", condition),
                    "DiagnosticNote", Strip(margin_note)),
                "Feedback", Strip(feedback))]

\* lines 194-196: the files the merge reads, reviews_*.csv but the master
all_files(fs) == {p \in DataPaths : fs[p].exists /\ p # MASTER_FILE}

\* the orders DATA_FOLDER.glob can list a set of paths in
GlobOrders(paths) ==
    {o \in [1..Cardinality(paths) -> paths] : \A p \in paths : \E i \in DOMAIN o : o[i] = p}

RECURSIVE concat(_, _)
\* pd.concat([pd.read_csv(f) for f in order], ignore_index=True).rows
concat(fs, order) ==
    IF order = <<>> THEN <<>>
    ELSE read_csv(fs[Head(order)]).df.rows \o concat(fs, Tail(order))

\* lines 194-199 once the reviewer file is written: the merge raises when
\* there is no file to read or one cannot be read, else the master is replaced
Rebuild(fs1, order) ==
    IF order = <<>> THEN [files |-> fs1, raised |-> "ValueError"]
    ELSE IF \E i \in DOMAIN order : ~read_csv(fs1[order[i]]).ok
    THEN [files |-> fs1, raised |-> "ParserError"]
    ELSE [files |-> [fs1 EXCEPT ![MASTER_FILE] =
                        to_csv([columns |-> Header, rows |-> concat(fs1, order)])],
          raised |-> ""]

\* lines 192-199: rewrite the reviewer file, rebuild the master file
UpdateWrites(fs, reviewer, df, order) ==
    Rebuild([fs EXCEPT ![REVIEWER_FILE(reviewer)] = to_csv(df)], order)

(* ------------------------------ one script run ------------------------ *)

\* widget state a run starts with: the form clicked (if any) and its values
NoClick(sel) ==
    [form |-> "none", image |-> sel, condition |-> "", margin_note |-> "",
     feedback |-> "", order |-> <<>>]

\* what the browser shows when a run ends
Page(kind, image, raised, bar, total) ==
    [kind |-> kind, image |-> image, raised |-> raised,
     progress |-> bar.value, total |-> total]

\* a run that ends without a handler: the files as the load left them
Ends(stage, bar, imgs, kind, image, raised) ==
    [files |-> stage.files, applied |-> FALSE, pruned |-> stage.pruned,
     shown |-> Page(kind, image, raised, bar, Cardinality(imgs))]

RECURSIVE ScriptRun(_, _, _, _, _)

\* st.rerun() after a handler: the script runs again without a click
Rerun(stage, fs2, imgs, reviewer, mode, sel) ==
    [ScriptRun(fs2, imgs, reviewer, mode, NoClick(sel))
        EXCEPT !.applied = TRUE, !.pruned = stage.pruned]

\* lines 82-139 for the first remaining image
ReviewImage(stage, bar, imgs, reviewer, click, current_image) ==
    IF current_image \in Unopenable THEN Ends(stage, bar, imgs, "error", current_image, "")
    ELSE IF click.form = "review" /\ click.image = current_image
    THEN Rerun(stage,
               SubmitWrites(stage.files, reviewer,
                            new_data(reviewer, current_image, click.condition,
                                     click.margin_note, click.feedback)),
               imgs, reviewer, "Review New", "")
    ELSE Ends(stage, bar, imgs, "review", current_image, "")

\* lines 77-139
ReviewNew(stage, bar, imgs, reviewer, click, remaining) ==
    IF remaining = <<>> THEN Ends(stage, bar, imgs, "alldone", "", "")
    ELSE ReviewImage(stage, bar, imgs, reviewer, click, Head(remaining))

\* lines 187-204 once the handler has written
Updated(stage, bar, imgs, reviewer, selected_image, done) ==
    IF done.raised # ""
    THEN [Ends(stage, bar, imgs, "edit", selected_image, done.raised)
             EXCEPT !.files = done.files, !.applied = TRUE]
    ELSE Rerun(stage, done.files, imgs, reviewer, "Edit Reviews", selected_image)

\* lines 152-204 for the image the select box holds
EditImage(stage, bar, imgs, reviewer, click, selected_image, prev) ==
    IF selected_image \notin imgs
    THEN Ends(stage, bar, imgs, "error", selected_image, "")
    ELSE IF selected_image \in Unopenable
            \/ prev[ColIndex(stage.reviewed, "Condition")] \notin Range(Conditions)
    THEN Ends(stage, bar, imgs, "exception", selected_image, "ValueError")
    ELSE IF click.form = "edit" /\ click.image = selected_image
    THEN Updated(stage, bar, imgs, reviewer, selected_image,
                 UpdateWrites(stage.files, reviewer,
                              UpdateRow(stage.reviewed, selected_image, click.condition,
                                        click.margin_note, click.feedback),
                              click.order))
    ELSE Ends(stage, bar, imgs, "edit", selected_image, "")

\* line 151: the select box keeps its image while listed, else shows the first
Selected(click, options) ==
    IF click.image \in Range(options) THEN click.image ELSE Head(options)

\* line 161
FirstRowOf(reviewed, selected_image) ==
    reviewed.rows[CHOOSE i \in 1..Len(reviewed.rows) :
        /\ reviewed.rows[i][ColIndex(reviewed, "ImageName")] = selected_image
        /\ \A h \in 1..(i - 1) :
              reviewed.rows[h][ColIndex(reviewed, "ImageName")] # selected_image]

\* lines 151-161
EditSelected(stage, bar, imgs, reviewer, click, selected_image) ==
    EditImage(stage, bar, imgs, reviewer, click, selected_image,
              FirstRowOf(stage.reviewed, selected_image))

\* lines 142-204
EditReviews(stage, bar, imgs, reviewer, click) ==
    IF stage.reviewed.rows = <<>> THEN Ends(stage, bar, imgs, "info", "", "")
    ELSE EditSelected(stage, bar, imgs, reviewer, click,
                      Selected(click, reviewed_images(stage.reviewed)))

\* lines 207-229
DownloadCSV(stage, bar, imgs, reviewer) ==
    IF ~stage.files[REVIEWER_FILE(reviewer)].exists
    THEN Ends(stage, bar, imgs, "info", "", "")
    ELSE IF ~read_csv(stage.files[REVIEWER_FILE(reviewer)]).ok
    THEN Ends(stage, bar, imgs, "exception", "", "ParserError")
    ELSE Ends(stage, bar, imgs, "download", "", "")

\* lines 66-229: the sidebar, then the view of the mode
Render(stage, bar, imgs, reviewer, mode, click) ==
    IF bar.raised # "" THEN Ends(stage, bar, imgs, "exception", "", bar.raised)
    \* st.progress rejects a value above 1.0
    ELSE IF bar.value > 100
    THEN Ends(stage, bar, imgs, "exception", "", "StreamlitAPIException")
    ELSE IF mode = "Review New"
    THEN ReviewNew(stage, bar, imgs, reviewer, click,
                   remaining_images(stage.reviewed, imgs))
    ELSE IF mode = "Edit Reviews" THEN EditReviews(stage, bar, imgs, reviewer, click)
    ELSE DownloadCSV(stage, bar, imgs, reviewer)

\* lines 61-229 on the table loaded and pruned
Loaded(stage, imgs, reviewer, mode, click) ==
    Render(stage, Progress(Len(stage.reviewed.rows), Cardinality(imgs)), imgs,
           reviewer, mode, click)

\* lines 23-229, for a reviewer, a sidebar mode and the widget state
ScriptRun(fs, imgs, reviewer, mode, click) ==
    Loaded(FilterBadEntries(fs, reviewer, imgs), imgs, reviewer, mode, click)

(* -------------------------------- state ------------------------------- *)

VARIABLES
    images,     \* names of the files in images/
    files,      \* the data folder: path -> file
    reviewer,   \* the text of "Enter your name or ID" ("" before any input)
    shown,      \* the page the browser shows
    ev,         \* the last operation run (history)
    ops,        \* form clicks so far
    sess        \* per reviewer: a script run in progress next to others

vars == <<images, files, reviewer, shown, ev, ops, sess>>

NoForm == [condition |-> "", margin_note |-> "", feedback |-> ""]

\* no script run in progress
IdleSession ==
    [pc |-> "idle", kind |-> "", form |-> NoForm, row |-> <<>>,
     reviewed |-> EmptyFrame, order |-> <<>>, todo |-> <<>>, merged |-> <<>>]

Blank == [kind |-> "none", image |-> "", raised |-> "", progress |-> 0, total |-> 0]

NoEvent == [op |-> "none", image |-> "", form |-> NoForm, applied |-> FALSE,
            pruned |-> FALSE]

\* the data folder right after DATA_FOLDER.mkdir on a fresh checkout
Init ==
    /\ images = ImageNames
    /\ files = [p \in DataPaths |-> Absent]
    /\ reviewer = ""
    /\ shown = Blank
    /\ ev = NoEvent
    /\ ops = 0
    /\ sess = [r \in Reviewers |-> IdleSession]

\* one script execution for reviewer r, stored
Ran(r, op, image, form, out) ==
    /\ files' = out.files
    /\ reviewer' = r
    /\ shown' = out.shown
    /\ ev' = [op |-> op, image |-> image, form |-> form, applied |-> out.applied,
              pruned |-> out.pruned]
    /\ UNCHANGED <<images, sess>>

\* a reviewer types a name, switches mode or picks an image to edit
PageLoad(r, mode, sel) ==
    /\ Ran(r, "load", "", NoForm, ScriptRun(files, images, r, mode, NoClick(sel)))
    /\ UNCHANGED ops

\* "Submit Review" clicked on the form shown: the script reruns with the click
Submit(condition, margin_note, feedback) ==
    /\ shown.kind = "review"
    /\ ops < MaxOps
    /\ ops' = ops + 1
    /\ Ran(reviewer, "submit", shown.image,
           [condition |-> condition, margin_note |-> margin_note, feedback |-> feedback],
           ScriptRun(files, images, reviewer, "Review New",
                     [form |-> "review", image |-> shown.image,
                      condition |-> condition, margin_note |-> margin_note,
                      feedback |-> feedback, order |-> <<>>]))

\* "Update Review" clicked on the edit form shown
Update(condition, margin_note, feedback) ==
    /\ shown.kind = "edit"
    /\ ops < MaxOps
    /\ ops' = ops + 1
    /\ \E order \in GlobOrders(all_files(
                        [files EXCEPT ![REVIEWER_FILE(reviewer)] = to_csv(EmptyFrame)])) :
          Ran(reviewer, "update", shown.image,
              [condition |-> condition, margin_note |-> margin_note,
               feedback |-> feedback],
              ScriptRun(files, images, reviewer, "Edit Reviews",
                        [form |-> "edit", image |-> shown.image,
                         condition |-> condition, margin_note |-> margin_note,
                         feedback |-> feedback, order |-> order]))

\* somebody deletes a file of images/
RemoveImage(name) ==
    /\ name \in images
    /\ images' = images \ {name}
    /\ ev' = [NoEvent EXCEPT !.op = "env", !.image = name]
    /\ UNCHANGED <<files, reviewer, shown, ops, sess>>

Next ==
    \/ \E r \in Reviewers, m \in Modes \ {"Edit Reviews"} : PageLoad(r, m, "")
    \/ \E r \in Reviewers, s \in ImageNames : PageLoad(r, "Edit Reviews", s)
    \/ \E in \in FormInputs : Submit(in.condition, in.margin_note, in.feedback)
    \/ \E in \in FormInputs : Update(in.condition, in.margin_note, in.feedback)
    \/ \E name \in ImageNames : RemoveImage(name)

\* reviewers one at a time, from an empty data folder
Spec == Init /\ [][Next]_vars

NextAnyId ==
    \/ \E r \in WithMaster, m \in Modes \ {"Edit Reviews"} : PageLoad(r, m, "")
    \/ \E r \in WithMaster, s \in ImageNames : PageLoad(r, "Edit Reviews", s)
    \/ \E in \in FormInputs : Submit(in.condition, in.margin_note, in.feedback)
    \/ \E in \in FormInputs : Update(in.condition, in.margin_note, in.feedback)
    \/ \E name \in ImageNames : RemoveImage(name)

\* the same, with "master" among the names typed
SpecAnyId == Init /\ [][NextAnyId]_vars

(* ------------------------------- claims ------------------------------- *)

\* the data lines of a file: what follows its header line
DataRows(f) == IF f.exists /\ ~f.bad /\ f.lines # <<>> THEN Tail(f.lines) ELSE <<>>

\* this step ran the clicked handler op to its end, and pruned nothing on the way
Handled(op) ==
    /\ ev'.op = op
    /\ ev'.applied
    /\ ~ev'.pruned
    /\ shown'.raised = ""

\* in this step the file at path gained one last row, of image X, and kept the rest
AppendsOne(path, X) ==
    LET old == DataRows(files[path])
        new == DataRows(files'[path])
    IN  /\ Len(new) = Len(old) + 1
        /\ SubSeq(new, 1, Len(old)) = old
        /\ new[Len(new)][2] = X

\* C1: a Submit of the image X presented in Review New appends exactly one
\* row of X to the reviewer file and exactly one to the master file, for every
\* reviewer ID; no other row of either file changes.
C1_SubmitAppendsOneRowToEach ==
    [][Handled("submit") =>
          /\ AppendsOne(REVIEWER_FILE(reviewer), shown.image)
          /\ AppendsOne(MASTER_FILE, shown.image)]_vars

\* C7: every reviewer file holds at most one record per (Reviewer, ImageName)
\* pair, in every state reached from an empty data folder.
C7_OneRecordPerPair ==
    \A r \in WithMaster :
        LET rows == DataRows(files[REVIEWER_FILE(r)])
        IN  \A i, j \in 1..Len(rows) :
                (rows[i][1] = rows[j][1] /\ rows[i][2] = rows[j][2]) => i = j

\* C3: an Update of image X rewrites X's row in place: same number of rows, X's
\* row keeps its position, Reviewer and ImageName and carries the three values
\* entered, and every other row of the reviewer file is as before.
C3_UpdateInPlace ==
    [][Handled("update") =>
          LET old == DataRows(files[REVIEWER_FILE(reviewer)])
              new == DataRows(files'[REVIEWER_FILE(reviewer)])
              X == shown.image
              in == ev'.form
          IN  /\ Len(new) = Len(old)
              /\ \E i \in 1..Len(old) :
                    /\ old[i][2] = X
                    /\ new[i] = <<old[i][1], X, in.condition, Strip(in.margin_note),
                                  Strip(in.feedback)>>
                    /\ \A j \in 1..Len(old) : j # i => new[j] = old[j]]_vars

\* the files of all reviewers
ReviewerFiles == {REVIEWER_FILE(r) : r \in Reviewers}

RECURSIVE RowsInOrder(_, _)
\* the data lines of the files listed, one file after the other
RowsInOrder(fs, order) ==
    IF order = <<>> THEN <<>>
    ELSE DataRows(fs[Head(order)]) \o RowsInOrder(fs, Tail(order))

\* C4: right after an Update has completed, the rows of the master file are
\* exactly the rows of all reviewer files, one file after the other.
C4_MasterIsConcatAfterUpdate ==
    (ev.op = "update" /\ ev.applied /\ shown.raised = "") =>
        \E order \in GlobOrders(ReviewerFiles) :
            DataRows(files[MASTER_FILE]) = RowsInOrder(files, order)

\* C5: a page load leaves in the reviewer file exactly the rows whose image is
\* in the folder, each unchanged, and drops the others.
C5_LoadPrunesAbsentKeepsPresent ==
    [][ev'.op = "load" =>
          DataRows(files'[REVIEWER_FILE(reviewer')]) =
              SelectSeq(DataRows(files[REVIEWER_FILE(reviewer')]),
                        LAMBDA row : row[2] \in images)]_vars

\* C9: a row is in the master file if and only if it is in some reviewer file,
\* in every state reached from an empty data folder by reviewers one at a time.
C9_MasterIsUnion ==
    Range(DataRows(files[MASTER_FILE])) =
        UNION {Range(DataRows(files[p])) : p \in ReviewerFiles}

(* ------------------- a reviewer file found on disk -------------------- *)

\* what a reviewer file left by earlier use or by hand can be when the page
\* is opened: absent, zero bytes, header only, undecodable, or holding rows
PriorFiles(r) ==
    { Absent,
      [exists |-> TRUE, bad |-> FALSE, lines |-> <<>>],
      [exists |-> TRUE, bad |-> FALSE, lines |-> <<Header>>],
      [exists |-> TRUE, bad |-> TRUE, lines |-> <<>>],
      [exists |-> TRUE, bad |-> FALSE,
       lines |-> <<Header, <<r, "c.png", "Others", "", "">> >>],
      [exists |-> TRUE, bad |-> FALSE,
       lines |-> <<Header, <<r, "a.png", "Not Sure", "x", "">>,
                           <<r, "gone.png", "Bacterial", "", "">> >>] }

InitLoad ==
    /\ images = ImageNames
    /\ \E r \in Reviewers : \E f \in PriorFiles(r) :
          files = [p \in DataPaths |-> IF p = REVIEWER_FILE(r) THEN f ELSE Absent]
    /\ reviewer = ""
    /\ shown = Blank
    /\ ev = NoEvent
    /\ ops = 0
    /\ sess = [r \in Reviewers |-> IdleSession]

NextLoad ==
    \/ \E r \in Reviewers, m \in Modes : PageLoad(r, m, "")
    \/ \E in \in FormInputs : Submit(in.condition, in.margin_note, in.feedback)
    \/ \E name \in ImageNames : RemoveImage(name)

\* page loads and submissions over a reviewer file found on disk
SpecLoad == InitLoad /\ [][NextLoad]_vars

\* C2: once the review of image X is submitted, the next page load does not
\* list X among the remaining images, whatever the reviewer file was before.
C2_SubmittedNotRemaining ==
    (ev.op = "submit" /\ ev.applied) =>
        ev.image \notin
            Range(remaining_images(FilterBadEntries(files, reviewer, images).reviewed,
                                   images))

\* C6: a page load over an image folder with 0 images reports progress 0 and
\* raises no division error, whatever the reviewer file contains.
C6_NoImagesProgressZero ==
    (shown.kind # "none" /\ shown.total = 0) =>
        (shown.progress = 0 /\ shown.raised # "ZeroDivisionError")

\* a page was loaded with 0 images over a reviewer file that held rows
C6_Witness ==
    /\ ev.op = "load"
    /\ ev.pruned
    /\ shown.total = 0
    /\ shown.kind # "none"

(* --------------- a reviewer who stays in Review New mode -------------- *)

\* any folder content, fixed from then on; nothing reviewed yet
InitLive ==
    /\ images \in SUBSET ImageNames
    /\ files = [p \in DataPaths |-> Absent]
    /\ reviewer = ""
    /\ shown = Blank
    /\ ev = NoEvent
    /\ ops = 0
    /\ sess = [r \in Reviewers |-> IdleSession]

\* the reviewer opens the page, or reloads it, in Review New mode
Open(r) ==
    /\ reviewer \in {"", r}
    /\ PageLoad(r, "Review New", "")

\* the reviewer submits the form shown
SubmitShown == \E in \in FormInputs : Submit(in.condition, in.margin_note, in.feedback)

\* the page is opened for the first time
OpenFirst == reviewer = "" /\ \E r \in AnyReviewers : Open(r)

NextLive ==
    \/ \E r \in AnyReviewers : Open(r)
    \/ SubmitShown

\* the page gets opened, and a form that is shown gets submitted
SpecLive ==
    InitLive /\ [][NextLive]_vars /\ WF_vars(OpenFirst) /\ WF_vars(SubmitShown)

\* the images recorded in the reviewer file of the reviewer at the page
Recorded == {row[2] : row \in Range(DataRows(files[REVIEWER_FILE(reviewer)]))}

\* C10: a reviewer who stays in Review New and submits every form shown ends
\* at 'All images reviewed' with every image of the folder in the reviewer
\* file; an image that cannot be opened does not keep the later ones back.
C10_EventuallyAllReviewed ==
    <>(shown.kind = "alldone" /\ images \subseteq Recorded)

(* ------------- two reviewers at once, one file access a step ---------- *)

\* the folder the two sessions work on
ConcImages == {"a.png", "c.png"}

\* the data folder after both reviewers have submitted a.png, one by one
ConcStart ==
    SubmitWrites(
        SubmitWrites([p \in DataPaths |-> Absent], "alice",
                     new_data("alice", "a.png", "Bacterial", "", "")),
        "007", new_data("007", "a.png", "Bacterial", "", ""))

InitConc ==
    /\ images = ConcImages
    /\ files = ConcStart
    /\ reviewer = ""
    /\ shown = Blank
    /\ ev = NoEvent
    /\ ops = 0
    /\ sess = [r \in Reviewers |-> IdleSession]

\* lines 32-130 of a run started by "Submit Review": the table is loaded, the
\* first remaining image is the one of the form, the record is built
StartSubmit(r, in) ==
    LET stage == FilterBadEntries(files, r, images)
        remaining == remaining_images(stage.reviewed, images)
    IN  /\ sess[r].pc = "idle"
        /\ remaining # <<>>
        /\ Head(remaining) \notin Unopenable
        /\ files' = stage.files
        /\ sess' = [sess EXCEPT ![r] =
              [IdleSession EXCEPT !.pc = "append_reviewer", !.kind = "submit",
                  !.form = in,
                  !.row = new_data(r, Head(remaining), in.condition, in.margin_note,
                                   in.feedback)]]
        /\ UNCHANGED <<images, reviewer, shown, ev, ops>>

\* line 133
AppendReviewer(r) ==
    /\ sess[r].pc = "append_reviewer"
    /\ files' = [files EXCEPT ![REVIEWER_FILE(r)] = to_csv_append(@, sess[r].row)]
    /\ sess' = [sess EXCEPT ![r].pc = "append_master"]
    /\ UNCHANGED <<images, reviewer, shown, ev, ops>>

\* line 134, after which the rerun only reads
AppendMaster(r) ==
    /\ sess[r].pc = "append_master"
    /\ files' = [files EXCEPT ![MASTER_FILE] = to_csv_append(@, sess[r].row)]
    /\ sess' = [sess EXCEPT ![r].pc = "done"]
    /\ UNCHANGED <<images, reviewer, shown, ev, ops>>

\* lines 32-191 of a run started by "Update Review" on the first image listed
StartUpdate(r, in) ==
    LET stage == FilterBadEntries(files, r, images)
    IN  /\ sess[r].pc = "idle"
        /\ stage.reviewed.rows # <<>>
        /\ files' = stage.files
        /\ sess' = [sess EXCEPT ![r] =
              [IdleSession EXCEPT !.pc = "write_reviewer", !.kind = "update",
                  !.form = in,
                  !.reviewed = UpdateRow(stage.reviewed,
                                         Head(reviewed_images(stage.reviewed)),
                                         in.condition, in.margin_note, in.feedback)]]
        /\ UNCHANGED <<images, reviewer, shown, ev, ops>>

\* lines 192-194: the reviewer file is rewritten and the data folder listed
WriteReviewer(r) ==
    /\ sess[r].pc = "write_reviewer"
    /\ files' = [files EXCEPT ![REVIEWER_FILE(r)] = to_csv(sess[r].reviewed)]
    /\ \E order \in GlobOrders(all_files(files')) :
          sess' = [sess EXCEPT ![r].pc = "read", ![r].order = order, ![r].todo = order]
    /\ UNCHANGED <<images, reviewer, shown, ev, ops>>

\* line 196: the next listed file is read; a file that cannot be read ends the run
ReadNext(r) ==
    /\ sess[r].pc = "read"
    /\ sess[r].todo # <<>>
    /\ LET got == read_csv(files[Head(sess[r].todo)])
       IN  sess' = [sess EXCEPT ![r] =
              IF got.ok
              THEN [@ EXCEPT !.todo = Tail(@), !.merged = @ \o got.df.rows]
              ELSE [@ EXCEPT !.pc = "done"]]
    /\ UNCHANGED <<images, files, reviewer, shown, ev, ops>>

\* line 199, after which the rerun only reads
WriteMaster(r) ==
    /\ sess[r].pc = "read"
    /\ sess[r].todo = <<>>
    /\ files' = [files EXCEPT ![MASTER_FILE] =
                    to_csv([columns |-> Header, rows |-> sess[r].merged])]
    /\ sess' = [sess EXCEPT ![r].pc = "done"]
    /\ UNCHANGED <<images, reviewer, shown, ev, ops>>

NextConc ==
    \/ \E r \in Reviewers, in \in FormInputs : StartSubmit(r, in)
    \/ \E r \in Reviewers : AppendReviewer(r)
    \/ \E r \in Reviewers : AppendMaster(r)
    \/ \E r \in Reviewers, in \in FormInputs : StartUpdate(r, in)
    \/ \E r \in Reviewers : WriteReviewer(r)
    \/ \E r \in Reviewers : ReadNext(r)
    \/ \E r \in Reviewers : WriteMaster(r)

\* sessions of different reviewers, their file accesses interleaved
SpecConc == InitConc /\ [][NextConc]_vars

\* the data folder that the operation of r's session leaves when it runs alone
\* on fs and the data folder is listed in the given order
SerialRun(fs, r, order) ==
    LET kind == sess[r].kind
        target == IF kind = "submit" THEN sess[r].row[2]
                  ELSE Head(reviewed_images(LoadPrevious(fs, r)))
    IN  ScriptRun(fs, images, r,
                  IF kind = "submit" THEN "Review New" ELSE "Edit Reviews",
                  [form |-> IF kind = "submit" THEN "review" ELSE "edit",
                   image |-> target, condition |-> sess[r].form.condition,
                   margin_note |-> sess[r].form.margin_note,
                   feedback |-> sess[r].form.feedback, order |-> order]).files

\* fs is what the two operations leave when run one after the other
SerialOutcome(fs) ==
    \E first \in Reviewers : \E second \in Reviewers \ {first} :
        \E o1 \in GlobOrders(ReviewerFiles), o2 \in GlobOrders(ReviewerFiles) :
            \A p \in DataPaths :
                fs[p] = SerialRun(SerialRun(ConcStart, first, o1), second, o2)[p]

\* C8: with sessions of two different reviewers interleaved, the files end as
\* some serial execution of the same operations leaves them.
C8_SerialEquivalent ==
    (\A r \in Reviewers : sess[r].pc = "done") => SerialOutcome(files)

====
